---------------------------- MODULE Spec2Model ----------------------------
(***************************************************************************)
(* Disease co-occurrence network pipeline.                                 *)
(*                                                                         *)
(* The pipeline is a chain of scripts, each its own process, that share    *)
(* only files:                                                             *)
(*   network_analysis/build_disease_network.py       (the graph builder)   *)
(*   network_analysis/compute_degree_centralities.py (degree / strength)   *)
(*   network_analysis/compute_betweenness_centrality.py (betweenness)      *)
(*   network_analysis/detect_communities.py          (Louvain communities) *)
(* One script runs at a time.  `pc` is the position inside the running     *)
(* script, the other variables are the script's own Python variables, and  *)
(* `files` is what is on disk.  When a script ends, its variables are      *)
(* gone and only the files remain.                                         *)
(*                                                                         *)
(* Values: a DataFrame is a sequence of row records; a dict is a record    *)
(* [keys |-> insertion-ordered sequence, val |-> function]; a networkx     *)
(* Graph is [nodes |-> insertion-ordered sequence, name |-> node           *)
(* attribute, w |-> weight of each edge], an edge being the set {u, v} of  *)
(* its endpoints (one element for a self-loop); a float quotient a/b is    *)
(* the pair <<a, b>>.                                                      *)
(*                                                                         *)
(* Spec runs the builder and the centrality scripts; CommunitySpec runs    *)
(* detect_communities.py, python-louvain's best_partition being spelled    *)
(* out step by step, the order in which a pass visits the nodes left open. *)
(***************************************************************************)
EXTENDS Integers, Sequences, FiniteSets, TLC

VARIABLES pc, rows, df, patient_diseases, disease_name_map, cooccurrence,
          total_pairs, G, G_main, degree_centrality, distance, exc, files,
          betweenness, betweenness_weighted,
          partition, modularity, communities, community_graph,
          current_graph, status, status_list, mod, cur_mod, new_mod,
          modified, pending

vars == <<pc, rows, df, patient_diseases, disease_name_map, cooccurrence,
          total_pairs, G, G_main, degree_centrality, distance, exc, files,
          betweenness, betweenness_weighted,
          partition, modularity, communities, community_graph,
          current_graph, status, status_list, mod, cur_mod, new_mod,
          modified, pending>>

---------------------------------------------------------------------------
(* Bounds of the model. *)

(* Input files of up to MaxRows rows in which a name may be missing, and   *)
(* input files of up to MaxNamedRows rows in which every row has its name. *)
MaxRows == 3

MaxNamedRows == 5

(* Graph files put in place of the builder's: up to MaxFedNodes nodes,     *)
(* every weight from -1 to MaxFedWeight.                                   *)
MaxFedNodes == 3

MaxFedWeight == 2

(* Graph files for the community stage: up to MaxComNodes nodes, every   *)
(* weight from 1 to MaxComWeight.                                        *)
MaxComNodes == 3

MaxComWeight == 2

Patients == {1, 2}

Diseases == {1, 2, 3}

Names == {"a"}

NaN == "NaN"

Row(p, d, nm) == [person_id |-> p, condition_concept_id |-> d, concept_name |-> nm]

RowAlphabet == {Row(p, d, nm) : p \in Patients, d \in Diseases, nm \in Names \cup {NaN}}

NamedAlphabet == {r \in RowAlphabet : r.concept_name # NaN}

CohortFiles(n) == [1..n -> RowAlphabet]

NamedFiles(n) == [1..n -> NamedAlphabet]

(* Input files of up to MaxRows rows of one patient in which a disease may *)
(* come under two names.                                                   *)
RenamedAlphabet == {Row(1, d, nm) : d \in {1, 2}, nm \in {"a", "b", NaN}}

RenamedFiles(n) == [1..n -> RenamedAlphabet]

(* The spec's scenario: P1 = {A, B}, P2 = {A, B, C}, P3 = {B, C}, with *)
(* A, B, C the diseases 1, 2, 3; its rows in every order.              *)
ScenarioRows ==
  <<Row(1, 1, "a"), Row(1, 2, "a"),
    Row(2, 1, "a"), Row(2, 2, "a"), Row(2, 3, "a"),
    Row(3, 2, "a"), Row(3, 3, "a")>>

Orders(n) == {p \in [1..n -> 1..n] : \A i, j \in 1..n : p[i] = p[j] => i = j}

ScenarioFiles ==
  {[i \in 1..Len(ScenarioRows) |-> ScenarioRows[p[i]]] :
     p \in Orders(Len(ScenarioRows))}

---------------------------------------------------------------------------
(* Python helpers. *)

Min(S) == CHOOSE x \in S : \A y \in S : x <= y

Max(S) == CHOOSE x \in S : \A y \in S : y <= x

RECURSIVE sorted(_)
sorted(S) == IF S = {} THEN <<>> ELSE <<Min(S)>> \o sorted(S \ {Min(S)})

Range(s) == {s[i] : i \in DOMAIN s}

combinations2(s) ==
  LET RECURSIVE from(_)
      from(i) == IF i >= Len(s) THEN <<>>
                 ELSE [j \in 1..(Len(s) - i) |-> <<s[i], s[i + j]>>] \o from(i + 1)
  IN from(1)

Put(f, k, v) == [x \in DOMAIN f \cup {k} |-> IF x = k THEN v ELSE f[x]]

EmptyDict == [keys |-> <<>>, val |-> <<>>]

DictSet(d, k, v) ==
  [keys |-> IF k \in Range(d.keys) THEN d.keys ELSE Append(d.keys, k),
   val  |-> Put(d.val, k, v)]

DictGet(d, k, default) == IF k \in DOMAIN d.val THEN d.val[k] ELSE default

(* The quotient a / b as the pair <<a, b>>; Python raises ZeroDivisionError *)
(* when b is 0.                                                            *)
Div(a, b) == <<a, b>>

DivRaises(q) == q[2] = 0

(* float(x) of an int. *)
Float(x) == <<x, 1>>

IndexOf(s, x) == CHOOSE i \in DOMAIN s : s[i] = x

---------------------------------------------------------------------------
(* pandas. *)

(* Mutant: the rows without a name are kept. *)
notna_all(rs) == rs

(* df[df['concept_name'].notna()] *)
notna(rs) == SelectSeq(rs, LAMBDA r : r.concept_name # NaN)

(* Mutant: grouping as itertools.groupby does, by runs of adjacent rows, *)
(* the last run of a patient replacing the earlier ones.                *)
groupby_adjacent(d) ==
  LET pids == {d[i].person_id : i \in DOMAIN d}
      last(p) == Max({i \in DOMAIN d : d[i].person_id = p})
      run(p) == {i \in 1..last(p) : \A k \in i..last(p) : d[k].person_id = p}
  IN [keys |-> sorted(pids),
      val  |-> [p \in pids |-> {d[i].condition_concept_id : i \in run(p)}]]

(* df.groupby('person_id')['condition_concept_id'].apply(set).to_dict() *)
groupby_set(d) ==
  LET pids == {d[i].person_id : i \in DOMAIN d}
  IN [keys |-> sorted(pids),
      val  |-> [p \in pids |->
                 {d[i].condition_concept_id :
                    i \in {j \in DOMAIN d : d[j].person_id = p}}]]

drop_duplicates(d) ==
  LET pair(i) == <<d[i].condition_concept_id, d[i].concept_name>>
      RECURSIVE keep(_)
      keep(i) == IF i > Len(d) THEN <<>>
                 ELSE IF \E j \in 1..(i - 1) : pair(j) = pair(i)
                      THEN keep(i + 1)
                      ELSE <<pair(i)>> \o keep(i + 1)
  IN keep(1)

(* Mutant: a key that is already in the dict keeps its value. *)
dict_zip_first(pairs) ==
  LET RECURSIVE fill(_, _)
      fill(i, d) == IF i > Len(pairs) THEN d
                    ELSE IF pairs[i][1] \in Range(d.keys) THEN fill(i + 1, d)
                    ELSE fill(i + 1, DictSet(d, pairs[i][1], pairs[i][2]))
  IN fill(1, EmptyDict)

(* dict(zip(ids, names)): a later pair of the same id replaces the value. *)
dict_zip(pairs) ==
  LET RECURSIVE fill(_, _)
      fill(i, d) == IF i > Len(pairs) THEN d
                    ELSE fill(i + 1, DictSet(d, pairs[i][1], pairs[i][2]))
  IN fill(1, EmptyDict)

---------------------------------------------------------------------------
(* networkx. *)

EmptyGraph == [nodes |-> <<>>, name |-> <<>>, w |-> <<>>]

add_node(g, n, nm) ==
  [g EXCEPT !.nodes = IF n \in Range(g.nodes) THEN g.nodes ELSE Append(g.nodes, n),
            !.name  = Put(g.name, n, nm)]

add_bare_node(g, n) ==
  IF n \in Range(g.nodes) THEN g ELSE [g EXCEPT !.nodes = Append(g.nodes, n)]

add_edge(g, u, v, weight) ==
  LET g2 == add_bare_node(add_bare_node(g, u), v)
  IN [g2 EXCEPT !.w = Put(g2.w, {u, v}, weight)]

number_of_nodes(g) == Len(g.nodes)

number_of_edges(g) == Cardinality(DOMAIN g.w)

neighbors(g, n) == {m \in Range(g.nodes) : {n, m} \in DOMAIN g.w}

(* G.degree(n): a self-loop counts twice. *)
degree(g, n) ==
  Cardinality({e \in DOMAIN g.w : n \in e})
    + (IF {n} \in DOMAIN g.w THEN 1 ELSE 0)

(* The nodes reachable from n (the breadth-first search of one component). *)
node_connected_component(g, n) ==
  LET RECURSIVE grow(_)
      grow(S) == LET T == S \cup UNION {neighbors(g, m) : m \in S}
                 IN IF T = S THEN S ELSE grow(T)
  IN grow({n})

(* nx.connected_components: the components in the order their first node *)
(* comes in G's node order. *)
connected_components(g) ==
  LET RECURSIVE scan(_, _)
      scan(i, seen) ==
        IF i > Len(g.nodes) THEN <<>>
        ELSE IF g.nodes[i] \in seen THEN scan(i + 1, seen)
        ELSE LET c == node_connected_component(g, g.nodes[i])
             IN <<c>> \o scan(i + 1, seen \cup c)
  IN scan(1, {})

NetworkXPointlessConcept == "NetworkXPointlessConcept"

(* Mutant: the null graph is accepted (and counts as connected). *)
is_connected_accepts(g) == FALSE

(* nx.is_connected raises NetworkXPointlessConcept on the null graph, *)
(* and otherwise asks whether the first node reaches every node.      *)
is_connected_raises(g) == Len(g.nodes) = 0

is_connected(g) ==
  \A n \in Range(g.nodes) : n \in node_connected_component(g, g.nodes[1])

(* Mutant: the first component is taken, whatever its size. *)
max_first(cs) == cs[1]

(* max(seq, key=len): the first element of greatest length. *)
max_by_len(cs) ==
  LET RECURSIVE best(_, _)
      best(i, b) == IF i > Len(cs) THEN cs[b]
                    ELSE IF Cardinality(cs[i]) > Cardinality(cs[b])
                         THEN best(i + 1, i) ELSE best(i + 1, b)
  IN best(2, 1)

(* G.subgraph(S).copy(): the nodes of S in G's order, the edges inside S. *)
subgraph(g, S) ==
  [nodes |-> SelectSeq(g.nodes, LAMBDA n : n \in S),
   name  |-> [n \in DOMAIN g.name \cap S |-> g.name[n]],
   w     |-> [e \in {x \in DOMAIN g.w : x \subseteq S} |-> g.w[e]]]

(* nx.degree_centrality: 1 for every node when the graph has at most one. *)
nx_degree_centrality(g) ==
  IF Len(g.nodes) <= 1 THEN [n \in Range(g.nodes) |-> <<1, 1>>]
  ELSE [n \in Range(g.nodes) |-> <<degree(g, n), Len(g.nodes) - 1>>]

---------------------------------------------------------------------------
(* build_disease_network.py *)

MIN_COOCCURRENCE == 2

RECURSIVE reversed(_)
reversed(s) == IF s = <<>> THEN <<>> ELSE reversed(Tail(s)) \o <<Head(s)>>

(* Mutant: the pairs are taken from the ids in the wrong order, so a pair *)
(* is keyed (B, A) instead of (A, B).                                     *)
PatientPairs_Unsorted(diseases) ==
  IF Cardinality(diseases) < 2 THEN <<>>
  ELSE combinations2(reversed(sorted(diseases)))

(* The pairs one patient contributes, canonical by sorting the ids. *)
PatientPairs(diseases) ==
  IF Cardinality(diseases) < 2 THEN <<>> ELSE combinations2(sorted(diseases))

(* cooccurrence[(disease1, disease2)] += 1 on a defaultdict(int). *)
Increment(c, key) == DictSet(c, key, DictGet(c, key, 0) + 1)

CountCooccurrence(pd) ==
  LET RECURSIVE pairsOf(_)
      pairsOf(i) == IF i > Len(pd.keys) THEN <<>>
                    ELSE PatientPairs(pd.val[pd.keys[i]]) \o pairsOf(i + 1)
      all == pairsOf(1)
      RECURSIVE count(_, _)
      count(i, c) == IF i > Len(all) THEN c
                     ELSE count(i + 1, Increment(c, all[i]))
  IN [cooccurrence |-> count(1, EmptyDict), total_pairs |-> Len(all)]

AddNodes(names) ==
  LET RECURSIVE add(_, _)
      add(i, g) == IF i > Len(names.keys) THEN g
                   ELSE add(i + 1, add_node(g, names.keys[i],
                                            names.val[names.keys[i]]))
  IN add(1, EmptyGraph)

(* Mutant: the threshold test is strict. *)
KeepEdge_Strict(weight) == weight > MIN_COOCCURRENCE

(* Mutant: every counted pair becomes an edge. *)
KeepEdge_Any(weight) == weight >= 1

(* if weight >= MIN_COOCCURRENCE *)
KeepEdge(weight) == weight >= MIN_COOCCURRENCE

AddEdges(g0, c) ==
  LET RECURSIVE add(_, _)
      add(i, g) ==
        IF i > Len(c.keys) THEN g
        ELSE LET k == c.keys[i]
             IN IF KeepEdge(c.val[k])
                THEN add(i + 1, add_edge(g, k[1], k[2], c.val[k]))
                ELSE add(i + 1, g)
  IN add(1, g0)

BuildGraph(names, c) == AddEdges(AddNodes(names), c)

(* Lines 32-89 as one function of the input file. *)
FullGraph(input) ==
  BuildGraph(dict_zip(drop_duplicates(notna(input))),
             CountCooccurrence(groupby_set(notna(input))).cooccurrence)

MainComponent(g) ==
  IF is_connected(g) THEN g
  ELSE subgraph(g, max_by_len(connected_components(g)))

(* Line 112: sum(dict(G_main.degree()).values()) / G_main.number_of_nodes() *)
AverageDegree(g) ==
  LET RECURSIVE total(_)
      total(i) == IF i > Len(g.nodes) THEN 0
                  ELSE degree(g, g.nodes[i]) + total(i + 1)
  IN Div(total(1), number_of_nodes(g))

(* Lines 145-153: one row per edge of the main component, disease1 being *)
(* the endpoint that comes first in the node order.                      *)
EdgeList(g, names) ==
  {LET u == CHOOSE x \in e : \A y \in e : IndexOf(g.nodes, x) <= IndexOf(g.nodes, y)
       v == IF Cardinality(e) = 1 THEN u ELSE CHOOSE y \in e : y # u
   IN [disease1_id |-> u, disease1_name |-> names.val[u],
       disease2_id |-> v, disease2_name |-> names.val[v],
       weight |-> g.w[e]] : e \in DOMAIN g.w}

(* Lines 161-168: one row per node of the main component. *)
NodeList(g, names, centrality) ==
  {[disease_id |-> n, disease_name |-> names.val[n],
    degree |-> degree(g, n), degree_centrality |-> centrality[n]] :
     n \in Range(g.nodes)}

---------------------------------------------------------------------------
(* compute_degree_centralities.py *)

RECURSIVE SumWeights(_, _)
SumWeights(g, E) ==
  IF E = {} THEN 0
  ELSE LET e == CHOOSE x \in E : TRUE
       IN g.w[e] + SumWeights(g, E \ {e})

(* G.degree(weight='weight'): a self-loop counts twice. *)
weighted_degree(g, n) ==
  SumWeights(g, {e \in DOMAIN g.w : n \in e})
    + (IF {n} \in DOMAIN g.w THEN g.w[{n}] ELSE 0)

(* max(str_map.values()) if len(str_map) > 0 else 1 *)
MaxStrength(str_map) ==
  IF DOMAIN str_map # {} THEN Max({str_map[n] : n \in DOMAIN str_map}) ELSE 1

(* Mutant: the N > 1 test is left out. *)
DegCentrality_Unguarded(deg, N) == Div(deg, N - 1)

(* deg / (N - 1) if N > 1 else 0.0 *)
DegCentrality(deg, N) == IF N > 1 THEN Div(deg, N - 1) ELSE Float(0)

(* Mutant: the max_strength > 0 test is left out. *)
StrengthNorm_Unguarded(strength, max_strength) ==
  Div(strength[1], strength[2] * max_strength)

(* strength / max_strength if max_strength > 0 else 0.0 *)
StrengthNorm(strength, max_strength) ==
  IF max_strength > 0 THEN Div(strength[1], strength[2] * max_strength)
  ELSE Float(0)

DegreeTable(g) ==
  LET N == number_of_nodes(g)
      deg_map == [n \in Range(g.nodes) |-> degree(g, n)]
      str_map == [n \in Range(g.nodes) |-> weighted_degree(g, n)]
      max_strength == MaxStrength(str_map)
  IN [n \in Range(g.nodes) |->
        [disease_id |-> n,
         disease_name |-> IF n \in DOMAIN g.name THEN g.name[n] ELSE "",
         degree |-> deg_map[n],
         degree_centrality |-> DegCentrality(deg_map[n], N),
         strength |-> Float(str_map[n]),
         strength_norm |-> StrengthNorm(Float(str_map[n]), max_strength)]]

---------------------------------------------------------------------------
(* compute_betweenness_centrality.py *)

(* Mutant: the weight > 0 test is left out. *)
EdgeDistance_Unguarded(weight) == Div(1, weight)

(* 1.0 / data['weight'] if data['weight'] > 0 else 1.0 *)
EdgeDistance(weight) == IF weight > 0 THEN Div(1, weight) ELSE Float(1)

EdgeDistances(g) == [e \in DOMAIN g.w |-> EdgeDistance(g.w[e])]

(* Every edge counts 1 when no weight is given (line 22). *)
UnitDistances(g) == [e \in DOMAIN g.w |-> Float(1)]

(* Arithmetic of quotients with denominators >= 0; <<1, 0>> is the length *)
(* of a path that does not exist.                                        *)
AddQ(p, q) == <<p[1] * q[2] + q[1] * p[2], p[2] * q[2]>>

LessQ(p, q) == p[1] * q[2] < q[1] * p[2]

EqQ(p, q) == p[1] * q[2] = q[1] * p[2]

Finite(p) == p[2] # 0

RECURSIVE GCD(_, _)
GCD(a, b) == IF b = 0 THEN a ELSE GCD(b, a % b)

Reduce(q) == IF q[1] = 0 THEN <<0, 1>>
             ELSE <<q[1] \div GCD(q[1], q[2]), q[2] \div GCD(q[1], q[2])>>

(* The lengths of the shortest paths from s (breadth-first search without *)
(* weights, Dijkstra's algorithm with them), len being positive.         *)
ShortestLengths(g, len, s) ==
  LET V == Range(g.nodes)
      step(d) ==
        [t \in V |->
           LET better == {c \in {AddQ(d[u], len[{u, t}]) :
                                   u \in {x \in V \ {t} : {x, t} \in DOMAIN len}} :
                            LessQ(c, d[t])}
           IN IF better = {} THEN d[t]
              ELSE CHOOSE c \in better : \A o \in better : ~LessQ(o, c)]
      RECURSIVE relax(_, _)
      relax(k, d) == IF k <= 0 THEN d ELSE relax(k - 1, step(d))
  IN relax(Len(g.nodes) - 1, [t \in V |-> IF t = s THEN <<0, 1>> ELSE <<1, 0>>])

(* sigma: the number of shortest paths from s to t, d being the lengths *)
(* from s.                                                             *)
RECURSIVE PathCount(_, _, _, _, _)
PathCount(g, len, d, s, t) ==
  IF t = s THEN 1
  ELSE LET pred == {u \in Range(g.nodes) \ {t} :
                      /\ {u, t} \in DOMAIN len
                      /\ Finite(d[u])
                      /\ EqQ(AddQ(d[u], len[{u, t}]), d[t])}
           RECURSIVE total(_)
           total(P) == IF P = {} THEN 0
                       ELSE LET u == CHOOSE x \in P : TRUE
                            IN PathCount(g, len, d, s, u) + total(P \ {u})
       IN total(pred)

(* nx.betweenness_centrality(G, normalized=True[, weight='distance']):  *)
(* for v the sum, over the ordered pairs (s, t) of other nodes joined    *)
(* by a path, of the fraction of the shortest s-t paths through v,       *)
(* times 1 / ((n - 1)(n - 2)) when the graph has n > 2 nodes.            *)
nx_betweenness_centrality(g, len) ==
  LET V == Range(g.nodes)
      n == Len(g.nodes)
      D == [s \in V |-> ShortestLengths(g, len, s)]
      sigma == [s \in V |-> [t \in V |->
                 IF Finite(D[s][t]) THEN PathCount(g, len, D[s], s, t) ELSE 0]]
      through(v) == {st \in (V \ {v}) \X (V \ {v}) :
                       /\ st[1] # st[2]
                       /\ Finite(D[st[1]][st[2]])
                       /\ Finite(D[st[1]][v])
                       /\ Finite(D[v][st[2]])
                       /\ EqQ(AddQ(D[st[1]][v], D[v][st[2]]), D[st[1]][st[2]])}
      RECURSIVE total(_, _)
      total(v, P) ==
        IF P = {} THEN <<0, 1>>
        ELSE LET st == CHOOSE x \in P : TRUE
             IN AddQ(<<sigma[st[1]][v] * sigma[v][st[2]], sigma[st[1]][st[2]]>>,
                     total(v, P \ {st}))
      scale == IF n <= 2 THEN 1 ELSE (n - 1) * (n - 2)
  IN [v \in V |-> LET b == total(v, through(v))
                  IN Reduce(<<b[1], b[2] * scale>>)]

(* Lines 31-42: one row per node. *)
BetweennessTable(g, bc, bcw) ==
  [n \in Range(g.nodes) |->
     [disease_id |-> n,
      disease_name |-> IF n \in DOMAIN g.name THEN g.name[n] ELSE "Unknown",
      degree |-> degree(g, n),
      betweenness_centrality |-> bc[n],
      betweenness_weighted |-> bcw[n]]]

---------------------------------------------------------------------------
(* detect_communities.py: community_louvain (python-louvain), whose       *)
(* floats are kept as exact quotients.                                   *)

(* graph.size(weight='weight'): the sum of the weights of the edges. *)
size(g) == SumWeights(g, DOMAIN g.w)

(* The weight of the self-loop at n, 0 when there is none. *)
LoopWeight(g, n) == IF {n} \in DOMAIN g.w THEN g.w[{n}] ELSE 0

(* Status.init without an initial partition: every node is alone in the  *)
(* community that has its position (from 0) as id.                       *)
StatusInit(g) ==
  LET V == Range(g.nodes)
      com(n) == IndexOf(g.nodes, n) - 1
      C == {com(n) : n \in V}
      at(c) == g.nodes[c + 1]
  IN [node2com     |-> [n \in V |-> com(n)],
      total_weight |-> size(g),
      degrees      |-> [c \in C |-> weighted_degree(g, at(c))],
      gdegrees     |-> [n \in V |-> weighted_degree(g, n)],
      loops        |-> [n \in V |-> LoopWeight(g, n)],
      internals    |-> [c \in C |-> LoopWeight(g, at(c))]]

(* __modularity(status): the sum over the communities in use of          *)
(* in / links - (degree / (2 links))^2, as one quotient over 4 links^2.  *)
StatusModularity(st) ==
  LET links == st.total_weight
      used == {st.node2com[n] : n \in DOMAIN st.node2com}
      RECURSIVE total(_)
      total(S) ==
        IF S = {} THEN 0
        ELSE LET c == CHOOSE x \in S : TRUE
             IN (4 * links * st.internals[c] - st.degrees[c] * st.degrees[c])
                  + total(S \ {c})
  IN IF links > 0 THEN <<total(used), 4 * links * links>> ELSE <<0, 1>>

(* new_mod - cur_mod < __MIN, with __MIN = 0.0000001 = 1 / 10000000:     *)
(* the two quotients have the same denominator.                          *)
BelowMin(new, cur) ==
  LET diff == new[1] - cur[1]
  IN diff <= 0 \/ (new[2] - 1) \div diff >= 10000000

(* __neighcom: the weight of the edges from node into every community    *)
(* one of its neighbours is in, the node's self-loop left out.           *)
neighcom(g, st, node) ==
  LET nbrs == neighbors(g, node) \ {node}
      coms == {st.node2com[x] : x \in nbrs}
  IN [c \in coms |-> SumWeights(g, {{node, x} : x \in {y \in nbrs : st.node2com[y] = c}})]

(* incr of __one_level for moving node into community com, times         *)
(* 2 * total_weight:  remove_cost + dnc - degrees[com] * degc_totw, the  *)
(* degrees being those after the node is taken out of its community.    *)
Increase(g, st, node, com) ==
  LET com_node == st.node2com[node]
      k == st.gdegrees[node]
      neigh == neighcom(g, st, node)
      w_own == IF com_node \in DOMAIN neigh THEN neigh[com_node] ELSE 0
      rest == st.degrees[com_node] - k
      deg_com == IF com = com_node THEN rest ELSE st.degrees[com]
  IN 2 * st.total_weight * (neigh[com] - w_own) + k * (rest - deg_com)

(* Mutant: the community of the least increase is taken. *)
BestCommunities_Worst(g, st, node) ==
  LET coms == DOMAIN neighcom(g, st, node)
  IN IF coms = {} THEN {st.node2com[node]}
     ELSE {c \in coms : \A o \in coms : Increase(g, st, node, c) <= Increase(g, st, node, o)}

(* Mutant: a community is taken whenever its increase is not negative. *)
BestCommunities_NotStrict(g, st, node) ==
  LET coms == DOMAIN neighcom(g, st, node)
      top == {c \in coms : \A o \in coms : Increase(g, st, node, o) <= Increase(g, st, node, c)}
  IN IF \E c \in top : Increase(g, st, node, c) >= 0 THEN top
     ELSE {st.node2com[node]}

(* The communities the inner loop of __one_level can end with: the       *)
(* neighbouring communities are gone through in a shuffled order and a   *)
(* community replaces the best one only if its increase is strictly      *)
(* greater (best_increase starts at 0, best_com at the node's own).      *)
BestCommunities(g, st, node) ==
  LET coms == DOMAIN neighcom(g, st, node)
      top == {c \in coms : \A o \in coms : Increase(g, st, node, o) <= Increase(g, st, node, c)}
  IN IF \E c \in top : Increase(g, st, node, c) > 0 THEN top
     ELSE {st.node2com[node]}

(* __remove(node, com_node, ...) followed by __insert(node, best_com, ...) *)
Move(g, st, node, best_com) ==
  LET com_node == st.node2com[node]
      neigh == neighcom(g, st, node)
      into(c) == IF c \in DOMAIN neigh THEN neigh[c] ELSE 0
      removed == [st EXCEPT
                    !.degrees[com_node] = @ - st.gdegrees[node],
                    !.internals[com_node] = @ - (into(com_node) + st.loops[node])]
  IN [removed EXCEPT
        !.node2com[node] = best_com,
        !.degrees[best_com] = @ + st.gdegrees[node],
        !.internals[best_com] = @ + (into(best_com) + st.loops[node])]

(* __renumber: the community ids in use become 0 .. count - 1; an id     *)
(* already in that range stays, the others fill the free ids in order.   *)
renumber(node2com) ==
  LET values == {node2com[n] : n \in DOMAIN node2com}
      target == 0..(Cardinality(values) - 1)
      old == sorted(values \ target)
      new == sorted(target \ values)
      to(v) == IF v \in target THEN v ELSE new[IndexOf(old, v)]
  IN [n \in DOMAIN node2com |-> to(node2com[n])]

(* The sequence s without the repeats of an element. *)
RECURSIVE unique(_)
unique(s) ==
  IF s = <<>> THEN <<>>
  ELSE LET r == unique(SubSeq(s, 1, Len(s) - 1))
       IN IF s[Len(s)] \in Range(r) THEN r ELSE Append(r, s[Len(s)])

(* induced_graph(partition, graph): one node per community, the weights  *)
(* of the edges between two communities added up, those inside a         *)
(* community added up on its self-loop.                                  *)
induced_graph(part, g) ==
  LET image(e) == {part[x] : x \in e}
      E == {image(e) : e \in DOMAIN g.w}
  IN [nodes |-> unique([i \in 1..Len(g.nodes) |-> part[g.nodes[i]]]),
      name  |-> <<>>,
      w     |-> [c \in E |-> SumWeights(g, {e \in DOMAIN g.w : image(e) = c})]]

(* partition_at_level(dendrogram, len(dendrogram) - 1) *)
partition_at_level(dendo) ==
  LET RECURSIVE through(_, _)
      through(i, part) ==
        IF i > Len(dendo) THEN part
        ELSE through(i + 1, [n \in DOMAIN part |-> dendo[i][part[n]]])
  IN through(2, dendo[1])

(* A dict with the nodes of g, in their order, as keys. *)
NodeDict(g, val) == [keys |-> g.nodes, val |-> val]

(* generate_dendrogram on a graph without edges: everyone in its own     *)
(* community.                                                            *)
Singletons(g) ==
  NodeDict(g, [n \in Range(g.nodes) |-> IndexOf(g.nodes, n) - 1])

(* The nodes of community c. *)
Members(part, c) == {n \in DOMAIN part : part[n] = c}

(* community_louvain.modularity(partition, G, weight='weight'): the sum  *)
(* over the communities of inc / links - (deg / (2 links))^2, as one     *)
(* quotient; raises ValueError when the graph has no link.               *)
modularity_raises(g) == size(g) = 0

community_modularity(part, g) ==
  LET links == size(g)
      coms == {part[n] : n \in Range(g.nodes)}
      inc(c) == SumWeights(g, {e \in DOMAIN g.w : e \subseteq Members(part, c)})
      RECURSIVE degsum(_)
      degsum(S) == IF S = {} THEN 0
                   ELSE LET n == CHOOSE x \in S : TRUE
                        IN weighted_degree(g, n) + degsum(S \ {n})
      deg(c) == degsum(Members(part, c) \cap Range(g.nodes))
      RECURSIVE total(_)
      total(S) == IF S = {} THEN 0
                  ELSE LET c == CHOOSE x \in S : TRUE
                       IN (4 * links * inc(c) - deg(c) * deg(c)) + total(S \ {c})
  IN Reduce(<<total(coms), 4 * links * links>>)

---------------------------------------------------------------------------
(* detect_communities.py: the script's own steps. *)

(* Mutant: a community's list is started anew by every node of it. *)
GroupByCommunity_Overwrite(part) ==
  LET RECURSIVE fill(_, _)
      fill(i, d) ==
        IF i > Len(part.keys) THEN d
        ELSE fill(i + 1, DictSet(d, part.val[part.keys[i]], <<part.keys[i]>>))
  IN fill(1, EmptyDict)

(* Lines 58-62: communities[comm_id].append(node), in the partition's order. *)
GroupByCommunity(part) ==
  LET RECURSIVE fill(_, _)
      fill(i, d) ==
        IF i > Len(part.keys) THEN d
        ELSE LET node == part.keys[i]
                 comm_id == part.val[node]
             IN fill(i + 1, DictSet(d, comm_id, Append(DictGet(d, comm_id, <<>>), node)))
  IN fill(1, EmptyDict)

(* sorted(s, key=..., reverse=True), key[i] being the key of s[i]:       *)
(* greatest key first, elements of the same key in the order they had.   *)
sorted_reverse(s, key) ==
  LET RECURSIVE pick(_)
      pick(I) ==
        IF I = {} THEN <<>>
        ELSE LET i == CHOOSE x \in I :
                        \A y \in I : key[y] < key[x] \/ (key[y] = key[x] /\ x <= y)
             IN <<s[i]>> \o pick(I \ {i})
  IN pick(DOMAIN s)

(* s[:n] *)
head(s, n) == SubSeq(s, 1, IF Len(s) < n THEN Len(s) ELSE n)

(* Lines 65-93: the ten largest communities, each with the names of its *)
(* twenty nodes of highest degree.                                      *)
CommunityAnalysis(g, comms) ==
  LET sorted_communities ==
        sorted_reverse(comms.keys,
                       [i \in DOMAIN comms.keys |-> Len(comms.val[comms.keys[i]])])
      top_diseases(c) ==
        LET diseases ==
              sorted_reverse(comms.val[c],
                             [i \in DOMAIN comms.val[c] |-> degree(g, comms.val[c][i])])
        IN [i \in 1..Len(head(diseases, 20)) |-> g.name[diseases[i]]]
  IN [i \in 1..Len(head(sorted_communities, 10)) |->
        [community_id |-> sorted_communities[i],
         size |-> Len(comms.val[sorted_communities[i]]),
         top_diseases |-> top_diseases(sorted_communities[i])]]

EmptyCommunityGraph == [nodes |-> <<>>, size |-> <<>>, w |-> <<>>]

(* Mutant: an edge inside a community is taken like one between two. *)
InterCommunity_Any(comm_u, comm_v) == TRUE

(* if comm_u != comm_v: only inter-community edges *)
InterCommunity(comm_u, comm_v) == comm_u # comm_v

(* Lines 171-185: a node per community with its number of nodes, and    *)
(* per pair of communities the added weights of G's edges between them. *)
CommunityGraph(g, part, comms) ==
  LET image(e) == {part.val[x] : x \in e}
      between == {e \in DOMAIN g.w :
                    LET u == CHOOSE x \in e : TRUE
                        v == IF Cardinality(e) = 1 THEN u ELSE CHOOSE y \in e : y # u
                    IN InterCommunity(part.val[u], part.val[v])}
  IN [nodes |-> comms.keys,
      size  |-> [c \in Range(comms.keys) |-> Len(comms.val[c])],
      w     |-> [c \in {image(e) : e \in between} |->
                   SumWeights(g, {e \in between : image(e) = c})]]

(* nx.clustering(G, node): the part of the pairs of neighbours of node *)
(* that are joined.                                                    *)
clustering(g, node) ==
  LET nbrs == neighbors(g, node) \ {node}
      d == Cardinality(nbrs)
      joined == {e \in DOMAIN g.w : Cardinality(e) = 2 /\ e \subseteq nbrs}
  IN IF d < 2 THEN <<0, 1>> ELSE Reduce(<<2 * Cardinality(joined), d * (d - 1)>>)

(* nx.average_clustering(G); divides by the number of nodes. *)
average_clustering(g) ==
  LET RECURSIVE total(_)
      total(i) == IF i > Len(g.nodes) THEN <<0, 1>>
                  ELSE AddQ(clustering(g, g.nodes[i]), total(i + 1))
      t == total(1)
  IN IF Len(g.nodes) = 0 THEN Div(0, 0) ELSE Reduce(<<t[1], t[2] * Len(g.nodes)>>)

(* nx.density(G) *)
density(g) ==
  LET n == number_of_nodes(g)
      e == number_of_edges(g)
  IN IF e = 0 \/ n <= 1 THEN <<0, 1>> ELSE Reduce(<<2 * e, n * (n - 1)>>)

(* Lines 226-237: one row per node. *)
NodeData(g, part) ==
  [n \in Range(g.nodes) |->
     [disease_id |-> n,
      disease_name |-> g.name[n],
      community |-> part.val[n],
      degree |-> degree(g, n),
      clustering |-> clustering(g, n)]]

(* Lines 242-254: one row per community. *)
CommunitySummary(g, comms) ==
  [c \in Range(comms.keys) |->
     LET sub == subgraph(g, Range(comms.val[c]))
     IN [community_id |-> c,
         num_diseases |-> Len(comms.val[c]),
         internal_edges |-> number_of_edges(sub),
         density |-> density(sub),
         avg_clustering |-> average_clustering(sub)]]

---------------------------------------------------------------------------
(* Graph files that do not come from the builder: simple graphs on the *)
(* nodes 1..n, any weight from -1 to MaxFedWeight on each edge.        *)

(* MaxFedWeight + 1 in the choice of a pair stands for "no edge here".  *)

FedPairs(n) == {{u, v} : u, v \in 1..n} \ {{u} : u \in 1..n}

FedChoices(n) == [FedPairs(n) -> (0 - 1)..(MaxFedWeight + 1)]

FedGraph(n, f) ==
  [nodes |-> [i \in 1..n |-> i],
   name  |-> [i \in 1..n |-> "a"],
   w     |-> [e \in {x \in FedPairs(n) : f[x] <= MaxFedWeight} |-> f[e]]]

(* Graph files for the community stage: simple graphs on the nodes 1..n *)
(* with weights from 1 to MaxComWeight, 0 in the choice of a pair        *)
(* standing for "no edge here".                                          *)
ComChoices(n) == [FedPairs(n) -> 0..MaxComWeight]

ComGraph(n, f) ==
  [nodes |-> [i \in 1..n |-> i],
   name  |-> [i \in 1..n |-> "a"],
   w     |-> [e \in {x \in FedPairs(n) : f[x] > 0} |-> f[e]]]

(* Main components as the builder saves them: a path of four nodes, and *)
(* two triangles joined by two edges.                                   *)
PathGraph ==
  [nodes |-> <<1, 2, 3, 4>>,
   name  |-> [i \in 1..4 |-> "a"],
   w     |-> ({1, 2} :> 3 @@ {2, 3} :> 2 @@ {3, 4} :> 3)]

TrianglesGraph ==
  [nodes |-> <<1, 2, 3, 4, 5, 6>>,
   name  |-> [i \in 1..6 |-> "a"],
   w     |-> ({1, 2} :> 3 @@ {1, 3} :> 3 @@ {2, 3} :> 3 @@ {3, 4} :> 2
                @@ {2, 5} :> 2 @@ {4, 5} :> 3 @@ {4, 6} :> 3 @@ {5, 6} :> 3)]

(* Two pairs and a heavy edge in a row: the pairs are joined only on the *)
(* second level.                                                         *)
PairsGraph ==
  [nodes |-> <<1, 2, 3, 4, 5, 6>>,
   name  |-> [i \in 1..6 |-> "a"],
   w     |-> ({1, 2} :> 6 @@ {3, 4} :> 6 @@ {1, 3} :> 2 @@ {2, 4} :> 2
                @@ {4, 5} :> 2 @@ {5, 6} :> 20)]

---------------------------------------------------------------------------
(* The running script. *)

buildVars == <<rows, df, patient_diseases, disease_name_map, cooccurrence,
               total_pairs>>

(* The variables of detect_communities.py, and those of the calls of     *)
(* community_louvain.best_partition it is in: generate_dendrogram's      *)
(* current_graph, status, status_list and mod, and __one_level's         *)
(* cur_mod, new_mod and modified; pending holds the nodes the shuffled   *)
(* pass has not come to yet.                                             *)
scriptVars == <<partition, modularity, communities, community_graph>>

louvainVars == <<current_graph, status, status_list, mod, cur_mod, new_mod,
                 modified, pending>>

communityVars == <<scriptVars, louvainVars>>

(* The variables of the stages that come after the degree stage. *)
stageVars == <<betweenness, betweenness_weighted, communityVars>>

NoProcess == [rows |-> <<>>, df |-> <<>>, patient_diseases |-> EmptyDict,
              disease_name_map |-> EmptyDict, cooccurrence |-> EmptyDict,
              total_pairs |-> 0, G |-> EmptyGraph, G_main |-> EmptyGraph,
              degree_centrality |-> <<>>, distance |-> <<>>, exc |-> "none",
              betweenness |-> <<>>, betweenness_weighted |-> <<>>,
              partition |-> EmptyDict, modularity |-> <<>>,
              communities |-> EmptyDict, community_graph |-> EmptyCommunityGraph,
              current_graph |-> EmptyGraph, status |-> StatusInit(EmptyGraph),
              status_list |-> <<>>, mod |-> <<0, 1>>, cur_mod |-> <<0, 1>>,
              new_mod |-> <<0, 1>>, modified |-> FALSE, pending |-> {}]

Cleared ==
  /\ rows = NoProcess.rows
  /\ df = NoProcess.df
  /\ patient_diseases = NoProcess.patient_diseases
  /\ disease_name_map = NoProcess.disease_name_map
  /\ cooccurrence = NoProcess.cooccurrence
  /\ total_pairs = NoProcess.total_pairs
  /\ G = NoProcess.G
  /\ G_main = NoProcess.G_main
  /\ degree_centrality = NoProcess.degree_centrality
  /\ distance = NoProcess.distance
  /\ exc = NoProcess.exc
  /\ betweenness = NoProcess.betweenness
  /\ betweenness_weighted = NoProcess.betweenness_weighted
  /\ partition = NoProcess.partition
  /\ modularity = NoProcess.modularity
  /\ communities = NoProcess.communities
  /\ community_graph = NoProcess.community_graph
  /\ current_graph = NoProcess.current_graph
  /\ status = NoProcess.status
  /\ status_list = NoProcess.status_list
  /\ mod = NoProcess.mod
  /\ cur_mod = NoProcess.cur_mod
  /\ new_mod = NoProcess.new_mod
  /\ modified = NoProcess.modified
  /\ pending = NoProcess.pending

Init ==
  /\ pc = "idle"
  /\ Cleared
  /\ files = <<>>

(* df = pd.read_csv(...).  A run of the pipeline starts in an empty output *)
(* directory; the builder's files and the stages' input are taken to be    *)
(* in the same cohort directory.                                           *)
Step1_Read ==
  /\ pc = "idle"
  /\ files = <<>>
  /\ \/ \E n \in 0..MaxRows : \E input \in CohortFiles(n) : rows' = input
     \/ \E n \in 0..MaxNamedRows : \E input \in NamedFiles(n) : rows' = input
     \/ \E input \in ScenarioFiles : rows' = input
     \/ \E n \in 1..MaxRows : \E input \in RenamedFiles(n) : rows' = input
  /\ pc' = "build.filter"
  /\ UNCHANGED <<df, patient_diseases, disease_name_map, cooccurrence,
                 total_pairs, G, G_main, degree_centrality, distance, exc, files>>
  /\ UNCHANGED stageVars

(* df = df[df['concept_name'].notna()].copy() *)
Step1_Filter ==
  /\ pc = "build.filter"
  /\ df' = notna(rows)
  /\ pc' = "build.step2"
  /\ UNCHANGED <<rows, patient_diseases, disease_name_map, cooccurrence,
                 total_pairs, G, G_main, degree_centrality, distance, exc, files>>
  /\ UNCHANGED stageVars

Step2 ==
  /\ pc = "build.step2"
  /\ patient_diseases' = groupby_set(df)
  /\ disease_name_map' = dict_zip(drop_duplicates(df))
  /\ pc' = "build.step3"
  /\ UNCHANGED <<rows, df, cooccurrence, total_pairs, G, G_main,
                 degree_centrality, distance, exc, files>>
  /\ UNCHANGED stageVars

Step3 ==
  /\ pc = "build.step3"
  /\ LET r == CountCooccurrence(patient_diseases)
     IN /\ cooccurrence' = r.cooccurrence
        /\ total_pairs' = r.total_pairs
  /\ pc' = "build.step4"
  /\ UNCHANGED <<rows, df, patient_diseases, disease_name_map, G, G_main,
                 degree_centrality, distance, exc, files>>
  /\ UNCHANGED stageVars

Step4 ==
  /\ pc = "build.step4"
  /\ G' = BuildGraph(disease_name_map, cooccurrence)
  /\ pc' = "build.step5"
  /\ UNCHANGED <<rows, df, patient_diseases, disease_name_map, cooccurrence,
                 total_pairs, G_main, degree_centrality, distance, exc, files>>
  /\ UNCHANGED stageVars

(* Lines 101-123.  nx.is_connected raises on the null graph; line 112 *)
(* divides the degree sum by the number of nodes of the main component. *)
Step5 ==
  /\ pc = "build.step5"
  /\ IF is_connected_raises(G)
     THEN /\ exc' = NetworkXPointlessConcept
          /\ pc' = "build.failed"
          /\ UNCHANGED <<G_main, degree_centrality>>
     ELSE IF DivRaises(AverageDegree(MainComponent(G)))
     THEN /\ exc' = "ZeroDivisionError"
          /\ pc' = "build.failed"
          /\ G_main' = MainComponent(G)
          /\ UNCHANGED degree_centrality
     ELSE /\ G_main' = MainComponent(G)
          /\ degree_centrality' = nx_degree_centrality(MainComponent(G))
          /\ pc' = "build.step6"
          /\ UNCHANGED exc
  /\ UNCHANGED <<buildVars, G, distance, files>>
  /\ UNCHANGED stageVars

(* Lines 131-142: the two pickles and the GraphML file. *)
Step6_SaveGraphs ==
  /\ pc = "build.step6"
  /\ files' = Put(Put(Put(files, "disease_network_full.pkl", G),
                      "disease_network_main.pkl", G_main),
                  "disease_network_main.graphml", G_main)
  /\ pc' = "build.edges"
  /\ UNCHANGED <<buildVars, G, G_main, degree_centrality, distance, exc>>
  /\ UNCHANGED stageVars

(* Lines 145-157.  pd.DataFrame([]) has no columns, so sort_values('weight') *)
(* raises KeyError when the main component has no edge.                      *)
Step6_SaveEdges ==
  /\ pc = "build.edges"
  /\ IF number_of_edges(G_main) = 0
     THEN /\ exc' = "KeyError"
          /\ pc' = "build.failed"
          /\ UNCHANGED files
     ELSE /\ files' = Put(files, "disease_cooccurrence_edges.csv",
                          EdgeList(G_main, disease_name_map))
          /\ pc' = "build.nodes"
          /\ UNCHANGED exc
  /\ UNCHANGED <<buildVars, G, G_main, degree_centrality, distance>>
  /\ UNCHANGED stageVars

(* Lines 160-172. *)
Step6_SaveNodes ==
  /\ pc = "build.nodes"
  /\ files' = Put(files, "disease_network_nodes.csv",
                  NodeList(G_main, disease_name_map, degree_centrality))
  /\ pc' = "build.done"
  /\ UNCHANGED <<buildVars, G, G_main, degree_centrality, distance, exc>>
  /\ UNCHANGED stageVars

(* The script ends, normally or with a traceback: its variables are gone. *)
Exit ==
  /\ pc \in {"build.done", "build.failed", "degree.done", "degree.failed",
             "betweenness.done", "betweenness.failed",
             "community.done", "community.failed"}
  /\ pc' = "idle"
  /\ rows' = NoProcess.rows
  /\ df' = NoProcess.df
  /\ patient_diseases' = NoProcess.patient_diseases
  /\ disease_name_map' = NoProcess.disease_name_map
  /\ cooccurrence' = NoProcess.cooccurrence
  /\ total_pairs' = NoProcess.total_pairs
  /\ G' = NoProcess.G
  /\ G_main' = NoProcess.G_main
  /\ degree_centrality' = NoProcess.degree_centrality
  /\ distance' = NoProcess.distance
  /\ exc' = NoProcess.exc
  /\ betweenness' = NoProcess.betweenness
  /\ betweenness_weighted' = NoProcess.betweenness_weighted
  /\ partition' = NoProcess.partition
  /\ modularity' = NoProcess.modularity
  /\ communities' = NoProcess.communities
  /\ community_graph' = NoProcess.community_graph
  /\ current_graph' = NoProcess.current_graph
  /\ status' = NoProcess.status
  /\ status_list' = NoProcess.status_list
  /\ mod' = NoProcess.mod
  /\ cur_mod' = NoProcess.cur_mod
  /\ new_mod' = NoProcess.new_mod
  /\ modified' = NoProcess.modified
  /\ pending' = NoProcess.pending
  /\ UNCHANGED files

(* A graph file that did not come from the builder is put in the directory. *)
FeedGraph ==
  /\ pc = "idle"
  /\ files = <<>>
  /\ \E n \in 0..MaxFedNodes : \E f \in FedChoices(n) :
       files' = Put(files, "disease_network_main.pkl", FedGraph(n, f))
  /\ UNCHANGED <<pc, buildVars, G, G_main, degree_centrality, distance, exc>>
  /\ UNCHANGED stageVars

(* compute_degree_centralities.py, lines 18-20; open() raises when the *)
(* file is missing.                                                    *)
Degree_Load ==
  /\ pc = "idle"
  /\ IF "disease_network_main.pkl" \in DOMAIN files
     THEN /\ G' = files["disease_network_main.pkl"]
          /\ pc' = "degree.main"
          /\ UNCHANGED exc
     ELSE /\ exc' = "FileNotFoundError"
          /\ pc' = "degree.failed"
          /\ UNCHANGED G
  /\ UNCHANGED <<buildVars, G_main, degree_centrality, distance, files>>
  /\ UNCHANGED stageVars

(* Lines 22-49.  A division by zero in the loop, or sort_values('degree') *)
(* on the column-less frame of an empty graph, ends the script before the *)
(* table is written.                                                      *)
Degree_Main ==
  /\ pc = "degree.main"
  /\ LET t == DegreeTable(G)
     IN IF \E n \in DOMAIN t : DivRaises(t[n].degree_centrality)
                                 \/ DivRaises(t[n].strength_norm)
        THEN /\ exc' = "ZeroDivisionError"
             /\ pc' = "degree.failed"
             /\ UNCHANGED files
        ELSE IF DOMAIN t = {}
        THEN /\ exc' = "KeyError"
             /\ pc' = "degree.failed"
             /\ UNCHANGED files
        ELSE /\ files' = Put(files, "degree_centrality_nodes.csv", t)
             /\ pc' = "degree.done"
             /\ UNCHANGED exc
  /\ UNCHANGED <<buildVars, G, G_main, degree_centrality, distance>>
  /\ UNCHANGED stageVars

(* compute_betweenness_centrality.py, lines 16-19. *)
Betweenness_Load ==
  /\ pc = "idle"
  /\ IF "disease_network_main.pkl" \in DOMAIN files
     THEN /\ G' = files["disease_network_main.pkl"]
          /\ pc' = "betweenness.unweighted"
          /\ UNCHANGED exc
     ELSE /\ exc' = "FileNotFoundError"
          /\ pc' = "betweenness.failed"
          /\ UNCHANGED G
  /\ UNCHANGED <<buildVars, G_main, degree_centrality, distance, files, stageVars>>

(* Line 22. *)
Betweenness_Unweighted ==
  /\ pc = "betweenness.unweighted"
  /\ betweenness' = nx_betweenness_centrality(G, UnitDistances(G))
  /\ pc' = "betweenness.distance"
  /\ UNCHANGED <<buildVars, G, G_main, degree_centrality, distance, exc, files,
                 betweenness_weighted, communityVars>>

(* Lines 25-26: data['distance'] for every edge.  "betweenness.weighted" *)
(* is the position before line 28.                                       *)
Betweenness_Distance ==
  /\ pc = "betweenness.distance"
  /\ LET d == EdgeDistances(G)
     IN IF \E e \in DOMAIN d : DivRaises(d[e])
        THEN /\ exc' = "ZeroDivisionError"
             /\ pc' = "betweenness.failed"
             /\ UNCHANGED distance
        ELSE /\ distance' = d
             /\ pc' = "betweenness.weighted"
             /\ UNCHANGED exc
  /\ UNCHANGED <<buildVars, G, G_main, degree_centrality, files, stageVars>>

(* Line 28. *)
Betweenness_Weighted ==
  /\ pc = "betweenness.weighted"
  /\ betweenness_weighted' = nx_betweenness_centrality(G, distance)
  /\ pc' = "betweenness.save"
  /\ UNCHANGED <<buildVars, G, G_main, degree_centrality, distance, exc, files,
                 betweenness, communityVars>>

(* Lines 31-50.  pd.DataFrame([]) has no columns, so                      *)
(* sort_values('betweenness_centrality') raises KeyError when the graph   *)
(* has no node.                                                           *)
Betweenness_Save ==
  /\ pc = "betweenness.save"
  /\ IF number_of_nodes(G) = 0
     THEN /\ exc' = "KeyError"
          /\ pc' = "betweenness.failed"
          /\ UNCHANGED files
     ELSE /\ files' = Put(files, "betweenness_centrality_nodes.csv",
                          BetweennessTable(G, betweenness, betweenness_weighted))
          /\ pc' = "betweenness.done"
          /\ UNCHANGED exc
  /\ UNCHANGED <<buildVars, G, G_main, degree_centrality, distance, stageVars>>

---------------------------------------------------------------------------
(* detect_communities.py *)

otherVars == <<buildVars, G_main, degree_centrality, distance, betweenness,
               betweenness_weighted>>

(* Lines 27-28; open() raises when the file is missing. *)
Community_Load ==
  /\ pc = "idle"
  /\ IF "disease_network_main.pkl" \in DOMAIN files
     THEN /\ G' = files["disease_network_main.pkl"]
          /\ pc' = "community.detect"
          /\ UNCHANGED exc
     ELSE /\ exc' = "FileNotFoundError"
          /\ pc' = "community.failed"
          /\ UNCHANGED G
  /\ UNCHANGED <<otherVars, files, communityVars>>

(* Line 40, best_partition up to the first pass of __one_level:          *)
(* generate_dendrogram returns the singletons at once for a graph        *)
(* without edges, and otherwise sets up the status of the first level.   *)
Louvain_Start ==
  /\ pc = "community.detect"
  /\ IF number_of_edges(G) = 0
     THEN /\ partition' = Singletons(G)
          /\ pc' = "community.modularity"
          /\ UNCHANGED louvainVars
     ELSE \E st \in {StatusInit(G)} : \E q \in {StatusModularity(st)} :
            /\ current_graph' = G
            /\ status' = st
            /\ status_list' = <<>>
            /\ cur_mod' = q
            /\ new_mod' = q
            /\ modified' = TRUE
            /\ pc' = "louvain.pass"
            /\ UNCHANGED <<partition, mod, pending>>
  /\ UNCHANGED <<otherVars, G, exc, files, modularity, communities,
                 community_graph>>

(* __one_level: while modified (__PASS_MAX is -1, so the number of      *)
(* passes is not limited), a pass over the nodes in a shuffled order.    *)
Louvain_Pass ==
  /\ pc = "louvain.pass"
  /\ IF modified
     THEN /\ cur_mod' = new_mod
          /\ modified' = FALSE
          /\ pending' = Range(current_graph.nodes)
          /\ pc' = "louvain.visit"
     ELSE /\ pc' = "louvain.level"
          /\ UNCHANGED <<cur_mod, modified, pending>>
  /\ UNCHANGED <<otherVars, G, exc, files, scriptVars, current_graph, status,
                 status_list, mod, new_mod>>

(* The body of the pass for one node: the node is taken out of its       *)
(* community and put into the best one.                                  *)
Louvain_Visit ==
  /\ pc = "louvain.visit"
  /\ \E node \in pending :
       \E best_com \in BestCommunities(current_graph, status, node) :
         /\ status' = Move(current_graph, status, node, best_com)
         /\ modified' = (modified \/ best_com # status.node2com[node])
         /\ pending' = pending \ {node}
  /\ UNCHANGED <<otherVars, G, exc, files, scriptVars, current_graph,
                 status_list, mod, cur_mod, new_mod, pc>>

(* The end of a pass: it was the last one if it gained less than __MIN. *)
Louvain_PassEnd ==
  /\ pc = "louvain.visit"
  /\ pending = {}
  /\ \E q \in {StatusModularity(status)} :
       /\ new_mod' = q
       /\ pc' = IF BelowMin(q, cur_mod) THEN "louvain.level" ELSE "louvain.pass"
  /\ UNCHANGED <<otherVars, G, exc, files, scriptVars, current_graph, status,
                 status_list, mod, cur_mod, modified, pending>>

(* generate_dendrogram after __one_level has returned: the level is kept *)
(* and the graph of its communities is the next one to go through,       *)
(* unless the level, not being the first, gained less than __MIN; then   *)
(* best_partition returns the partition of the last level kept.          *)
Louvain_Level ==
  /\ pc = "louvain.level"
  /\ \E level_mod \in {StatusModularity(status)} :
       IF status_list # <<>> /\ BelowMin(level_mod, mod)
       THEN /\ partition' = NodeDict(G, partition_at_level(status_list))
            /\ pc' = "community.modularity"
            /\ UNCHANGED louvainVars
       ELSE \E part \in {renumber(status.node2com)} :
            \E next_graph \in {induced_graph(part, current_graph)} :
            \E st \in {StatusInit(next_graph)} :
            \E q \in {StatusModularity(st)} :
              /\ status_list' = Append(status_list, part)
              /\ mod' = level_mod
              /\ current_graph' = next_graph
              /\ status' = st
              /\ cur_mod' = q
              /\ new_mod' = q
              /\ modified' = TRUE
              /\ pc' = "louvain.pass"
              /\ UNCHANGED <<partition, pending>>
  /\ UNCHANGED <<otherVars, G, exc, files, modularity, communities,
                 community_graph>>

(* Lines 43-50: the modularity of the partition, and the community of   *)
(* every node as an attribute of G.                                      *)
Community_Modularity ==
  /\ pc = "community.modularity"
  /\ IF modularity_raises(G)
     THEN /\ exc' = "ValueError"
          /\ pc' = "community.failed"
          /\ UNCHANGED <<G, modularity>>
     ELSE /\ modularity' = community_modularity(partition.val, G)
          /\ G' = [nodes |-> G.nodes, name |-> G.name, w |-> G.w,
                    community |-> partition.val]
          /\ pc' = "community.analyze"
          /\ UNCHANGED exc
  /\ UNCHANGED <<otherVars, files, partition, communities, community_graph,
                 louvainVars>>

(* Lines 58-103.  G.nodes[node]['name'] raises for a node without name. *)
Community_Analyze ==
  /\ pc = "community.analyze"
  /\ \E comms \in {GroupByCommunity(partition)} :
       /\ communities' = comms
       /\ IF \E n \in Range(G.nodes) : n \notin DOMAIN G.name
          THEN /\ exc' = "KeyError"
               /\ pc' = "community.failed"
               /\ UNCHANGED files
          ELSE /\ files' = Put(files, "community_analysis.csv",
                               CommunityAnalysis(G, comms))
               /\ pc' = "community.draw"
               /\ UNCHANGED exc
  /\ UNCHANGED <<otherVars, G, partition, modularity, community_graph,
                 louvainVars>>

(* Lines 112-162: the picture of the 300 nodes of highest degree, each  *)
(* in the colour of its community.                                      *)
Community_Draw ==
  /\ pc = "community.draw"
  /\ files' = Put(files, "disease_network_communities.png", partition.val)
  /\ pc' = "community.network"
  /\ UNCHANGED <<otherVars, G, exc, scriptVars, louvainVars>>

(* Lines 171-218: the graph of the communities and its picture. *)
Community_Network ==
  /\ pc = "community.network"
  /\ \E cg \in {CommunityGraph(G, partition, communities)} :
       /\ community_graph' = cg
       /\ files' = Put(files, "community_network.png", cg)
  /\ pc' = "community.save"
  /\ UNCHANGED <<otherVars, G, exc, partition, modularity, communities,
                 louvainVars>>

(* Lines 226-271: the node table and the community table. *)
Community_Save ==
  /\ pc = "community.save"
  /\ files' = Put(Put(files, "diseases_with_communities.csv",
                      NodeData(G, partition)),
                  "community_summary.csv", CommunitySummary(G, communities))
  /\ pc' = "community.done"
  /\ UNCHANGED <<otherVars, G, exc, scriptVars, louvainVars>>

Next ==
  \/ Step1_Read
  \/ Step1_Filter
  \/ Step2
  \/ Step3
  \/ Step4
  \/ Step5
  \/ Step6_SaveGraphs
  \/ Step6_SaveEdges
  \/ Step6_SaveNodes
  \/ Exit
  \/ FeedGraph
  \/ Degree_Load
  \/ Degree_Main
  \/ Betweenness_Load
  \/ Betweenness_Unweighted
  \/ Betweenness_Distance
  \/ Betweenness_Weighted
  \/ Betweenness_Save

Spec == Init /\ [][Next]_vars

---------------------------------------------------------------------------
(* The community stage by itself: detect_communities.py started in a     *)
(* directory that holds a main component, or none.                       *)
CommunityInit ==
  /\ pc = "idle"
  /\ Cleared
  /\ \/ files = <<>>
     \/ \E n \in 0..MaxComNodes : \E f \in ComChoices(n) :
          files = [x \in {"disease_network_main.pkl"} |-> ComGraph(n, f)]
     \/ \E g \in {PathGraph, TrianglesGraph, PairsGraph} :
          files = [x \in {"disease_network_main.pkl"} |-> g]

CommunityNext ==
  \/ Community_Load
  \/ Louvain_Start
  \/ Louvain_Pass
  \/ Louvain_Visit
  \/ Louvain_PassEnd
  \/ Louvain_Level
  \/ Community_Modularity
  \/ Community_Analyze
  \/ Community_Draw
  \/ Community_Network
  \/ Community_Save

CommunitySpec == CommunityInit /\ [][CommunityNext]_vars

(* The steps of the call of best_partition at line 40. *)
LouvainStep ==
  \/ Louvain_Start
  \/ Louvain_Pass
  \/ Louvain_Visit
  \/ Louvain_PassEnd
  \/ Louvain_Level

(* A call of best_partition that has been started is not left halfway:  *)
(* the interpreter goes on with the library's next step.                *)
CommunityFair == CommunitySpec /\ WF_vars(LouvainStep)

---------------------------------------------------------------------------
(* Properties. *)

(* The builder's variables from step 3, step 4 and step 5 on, until the *)
(* script ends.                                                         *)
AfterStep3 ==
  pc \in {"build.step4", "build.step5", "build.step6", "build.edges",
          "build.nodes", "build.done", "build.failed"}

AfterStep4 == AfterStep3 /\ pc # "build.step4"

AfterStep5 ==
  \/ pc \in {"build.step6", "build.edges", "build.nodes", "build.done"}
  \/ pc = "build.failed" /\ exc = "KeyError"

(* Read off the input file itself. *)
Named(p, d) ==
  \E i \in DOMAIN rows : /\ rows[i].person_id = p
                         /\ rows[i].condition_concept_id = d
                         /\ rows[i].concept_name # NaN

InputPatients == {rows[i].person_id : i \in DOMAIN rows}

InputDiseases == {rows[i].condition_concept_id : i \in DOMAIN rows}

NamedDiseases == {d \in InputDiseases : \E p \in InputPatients : Named(p, d)}

PatientsWithBoth(a, b) == {p \in InputPatients : Named(p, a) /\ Named(p, b)}

Counter(a, b) == DictGet(cooccurrence, <<a, b>>, 0)

(* C1: after the counting step, for every two distinct diseases A < B the  *)
(* counter of the sorted pair (A, B) is the number of distinct patients    *)
(* that have both, however often a (patient, disease) row is repeated and  *)
(* in whatever order the rows come; and every key of the counter is a      *)
(* sorted pair of distinct diseases, so (B, A) has no counter of its own.  *)
C1_PairCount ==
  AfterStep3 =>
    /\ \A a, b \in InputDiseases :
         a < b => Counter(a, b) = Cardinality(PatientsWithBoth(a, b))
    /\ \A k \in DOMAIN cooccurrence.val : k[1] < k[2]
    /\ Range(cooccurrence.keys) = DOMAIN cooccurrence.val

(* A counter of 2 from an input with a repeated row, in which a patient's  *)
(* larger disease id comes before the smaller one.                         *)
C1_Witness ==
  /\ AfterStep3
  /\ \E a, b \in InputDiseases : a < b /\ Counter(a, b) = 2
  /\ \E i, j \in DOMAIN rows : i < j /\ rows[i] = rows[j]
  /\ \E i, j \in DOMAIN rows :
       /\ i < j
       /\ rows[i].person_id = rows[j].person_id
       /\ rows[i].condition_concept_id > rows[j].condition_concept_id

(* C2: in the full graph an edge {A, B} exists exactly when the counter of *)
(* (A, B) is at least MIN_COOCCURRENCE, and its weight is that counter; no *)
(* edge of the full graph or of the main component is a self-loop or has a *)
(* weight below MIN_COOCCURRENCE, and an edge has one weight.              *)
C2_EdgeThreshold ==
  AfterStep4 =>
    /\ \A a, b \in InputDiseases :
         a < b =>
           /\ ({a, b} \in DOMAIN G.w) <=> (Counter(a, b) >= MIN_COOCCURRENCE)
           /\ {a, b} \in DOMAIN G.w => G.w[{a, b}] = Counter(a, b)
    /\ \A g \in {G, G_main} : \A e \in DOMAIN g.w :
         /\ Cardinality(e) = 2
         /\ e \subseteq Range(g.nodes)
         /\ g.w[e] >= MIN_COOCCURRENCE

(* An edge of weight exactly MIN_COOCCURRENCE next to a counted pair that  *)
(* stays below the threshold.                                              *)
C2_Witness ==
  /\ AfterStep4
  /\ \E e \in DOMAIN G.w : G.w[e] = MIN_COOCCURRENCE
  /\ \E a, b \in InputDiseases : a < b /\ Counter(a, b) = 1

Swap(s, i, j) ==
  [k \in DOMAIN s |-> IF k = i THEN s[j] ELSE IF k = j THEN s[i] ELSE s[k]]

OneNamePerDisease(input) ==
  \A i, j \in DOMAIN input :
    (/\ input[i].condition_concept_id = input[j].condition_concept_id
     /\ input[i].concept_name # NaN
     /\ input[j].concept_name # NaN)
      => input[i].concept_name = input[j].concept_name

(* C3: the full graph the builder has just built from the input has the   *)
(* node set, the edge set and the weights of the full graph built from the *)
(* same rows with any two neighbouring rows exchanged.  Every input file   *)
(* is a start of the builder, and every reordering of a file is a chain of *)
(* such exchanges, so the graph is the same for every order of the rows.   *)
C3_RowOrder ==
  (pc = "build.step5" /\ OneNamePerDisease(rows)) =>
    \A i \in 1..(Len(rows) - 1) :
      LET other == FullGraph(Swap(rows, i, i + 1))
      IN /\ Range(other.nodes) = Range(G.nodes)
         /\ DOMAIN other.w = DOMAIN G.w
         /\ other.w = G.w

(* A graph with an edge, built from rows in which the two patients' rows   *)
(* are interleaved.                                                        *)
C3_Witness ==
  /\ pc = "build.step5"
  /\ DOMAIN G.w # {}
  /\ \E i, j, k \in DOMAIN rows :
       /\ i < j /\ j < k
       /\ rows[i].person_id = rows[k].person_id
       /\ rows[i].person_id # rows[j].person_id

(* The nodes joined to u by a path of edges of g. *)
Reachable(g, u) ==
  LET RECURSIVE close(_)
      close(S) ==
        LET T == S \cup {v \in Range(g.nodes) :
                           \E x \in S : {x, v} \in DOMAIN g.w}
        IN IF T = S THEN S ELSE close(T)
  IN close({u})

IncidentEdges(g, v) == {e \in DOMAIN g.w : v \in e}

(* C4: the main component is a connected component of the full graph with  *)
(* the most nodes: its nodes are nodes of the full graph, they are joined  *)
(* to each other and to no other node, no node of the full graph lies in a *)
(* component with more nodes, and its edges are the full graph's edges     *)
(* between its nodes with their weights; when the full graph is connected  *)
(* the main component has all its nodes and edges.                         *)
C4_MainComponent ==
  AfterStep5 =>
    LET S == Range(G_main.nodes)
        V == Range(G.nodes)
    IN /\ S # {}
       /\ S \subseteq V
       /\ number_of_nodes(G) >= number_of_nodes(G_main)
       /\ Cardinality(S) = Len(G_main.nodes)
       /\ \A u \in S : Reachable(G, u) = S /\ Reachable(G_main, u) = S
       /\ \A v \in V : Cardinality(Reachable(G, v)) <= Cardinality(S)
       /\ DOMAIN G_main.w = {e \in DOMAIN G.w : e \subseteq S}
       /\ \A e \in DOMAIN G_main.w : G_main.w[e] = G.w[e]
       /\ (\A v \in V : Reachable(G, v) = V) => (S = V /\ G_main.w = G.w)

(* A full graph that is not connected, whose first node is alone and whose *)
(* main component is the two-node component found after it.                *)
C4_Witness ==
  /\ AfterStep5
  /\ number_of_nodes(G) = 3
  /\ number_of_nodes(G_main) = 2
  /\ G.nodes[1] \notin Range(G_main.nodes)

IsScenario(input) ==
  /\ Len(input) = Len(ScenarioRows)
  /\ Range(input) = Range(ScenarioRows)

(* C5: for P1 = {A, B}, P2 = {A, B, C}, P3 = {B, C} (A, B, C = 1, 2, 3),   *)
(* rows in any order, the full graph has the 3 nodes and exactly the edges *)
(* (A, B) of weight 2 and (B, C) of weight 2, the pair (A, C) being        *)
(* counted once and dropped; the main component has all 3 nodes, B has     *)
(* degree 2 and A and C degree 1, in the graph and in the saved node list. *)
C5_Scenario ==
  (AfterStep5 /\ IsScenario(rows)) =>
    /\ Range(G.nodes) = {1, 2, 3}
    /\ number_of_nodes(G) = 3
    /\ DOMAIN G.w = {{1, 2}, {2, 3}}
    /\ G.w[{1, 2}] = 2
    /\ G.w[{2, 3}] = 2
    /\ Counter(1, 3) = 1
    /\ Range(G_main.nodes) = {1, 2, 3}
    /\ Cardinality(IncidentEdges(G_main, 2)) = 2
    /\ Cardinality(IncidentEdges(G_main, 1)) = 1
    /\ Cardinality(IncidentEdges(G_main, 3)) = 1
    /\ exc = "none"
    /\ pc = "build.done" =>
         {<<r.disease_id, r.degree>> : r \in files["disease_network_nodes.csv"]}
           = {<<1, 1>>, <<2, 2>>, <<3, 1>>}

(* The builder has run to its end on the scenario, the rows not in the     *)
(* order the scenario lists them.                                          *)
C5_Witness ==
  /\ pc = "build.done"
  /\ IsScenario(rows)
  /\ rows # ScenarioRows

(* C6: the nodes of the full graph are exactly the diseases that have a    *)
(* row with a name; a disease whose rows all lack the name is no node and  *)
(* is in no counted pair, and no patient is counted for a pair through a   *)
(* row without a name; a named disease none of whose pairs reaches the     *)
(* threshold is a node without edges.                                      *)
C6_NodeSet ==
  AfterStep4 =>
    /\ Range(G.nodes) = NamedDiseases
    /\ DOMAIN G.name = NamedDiseases
    /\ \A d \in NamedDiseases : G.name[d] # NaN
    /\ \A k \in DOMAIN cooccurrence.val :
         /\ k[1] \in NamedDiseases
         /\ k[2] \in NamedDiseases
         /\ cooccurrence.val[k] <= Cardinality(PatientsWithBoth(k[1], k[2]))
    /\ \A d \in NamedDiseases :
         (\A o \in NamedDiseases :
            Cardinality(PatientsWithBoth(d, o)) < MIN_COOCCURRENCE \/ o = d)
           => (d \in Range(G.nodes) /\ IncidentEdges(G, d) = {})

(* A row without a name whose disease is no node, its patient having a     *)
(* named disease that is a node without edges.                             *)
C6_Witness ==
  /\ AfterStep4
  /\ \E i, j \in DOMAIN rows :
       /\ rows[i].concept_name = NaN
       /\ rows[i].condition_concept_id \notin Range(G.nodes)
       /\ rows[j].person_id = rows[i].person_id
       /\ rows[j].condition_concept_id \in Range(G.nodes)
       /\ IncidentEdges(G, rows[j].condition_concept_id) = {}

(* The error of the main-component step on a graph without nodes: the      *)
(* exception nx.is_connected raises for the null graph.                    *)
EmptyGraphError == NetworkXPointlessConcept

(* C7: when the full graph has no node, the builder stops in the           *)
(* main-component step with the empty-graph error, and neither before nor  *)
(* after that has it written a file: no saved graph, no edge list, no node *)
(* list.                                                                   *)
C7_EmptyGraph ==
  (AfterStep4 /\ number_of_nodes(G) = 0) =>
    /\ pc \in {"build.step5", "build.failed"}
    /\ pc = "build.failed" => exc = EmptyGraphError
    /\ files = <<>>

(* The builder has failed on an input that has rows, none with a name.     *)
C7_Witness ==
  /\ pc = "build.failed"
  /\ exc = EmptyGraphError
  /\ Len(rows) > 1
  /\ files = <<>>

(* The graph file the stages read and the table the degree stage writes. *)
HasDegreeTable == "degree_centrality_nodes.csv" \in DOMAIN files

MainFile == files["disease_network_main.pkl"]

DegreeFile == files["degree_centrality_nodes.csv"]

(* The quotient q is the number a / b. *)
IsQuotient(q, a, b) == q[2] # 0 /\ b # 0 /\ q[1] * b = a * q[2]

(* C8: the table of the degree stage has one row per node of the graph it  *)
(* read; the row of v gives degree(v) as the number of edges at v, and     *)
(* degree_centrality(v) as degree(v) / (N - 1) when the graph has N > 1    *)
(* nodes (0 for a node without edges) and as 0 when N = 1; the stage never *)
(* ends in a division by zero.                                             *)
C8_DegreeCentrality ==
  /\ pc = "degree.failed" => exc # "ZeroDivisionError"
  /\ HasDegreeTable =>
       LET N == number_of_nodes(MainFile)
       IN /\ DOMAIN DegreeFile = Range(MainFile.nodes)
          /\ \A v \in DOMAIN DegreeFile :
               LET r == DegreeFile[v]
               IN /\ r.disease_id = v
                  /\ r.degree = Cardinality(IncidentEdges(MainFile, v))
                  /\ N > 1 => IsQuotient(r.degree_centrality, r.degree, N - 1)
                  /\ N = 1 => IsQuotient(r.degree_centrality, 0, 1)
                  /\ IncidentEdges(MainFile, v) = {}
                       => IsQuotient(r.degree_centrality, 0, 1)

(* The degree stage has written its table for the one-node main component  *)
(* the builder saved.                                                      *)
C8_Witness ==
  /\ HasDegreeTable
  /\ "disease_network_full.pkl" \in DOMAIN files
  /\ number_of_nodes(MainFile) = 1
  /\ pc = "degree.done"

RECURSIVE WeightTotal(_, _)
WeightTotal(g, E) ==
  IF E = {} THEN 0
  ELSE LET e == CHOOSE x \in E : TRUE
       IN g.w[e] + WeightTotal(g, E \ {e})

IncidentWeight(g, v) == WeightTotal(g, IncidentEdges(g, v))

(* C9: in the table of the degree stage strength(v) is the sum of the      *)
(* weights of the edges at v, and strength_norm(v) is strength(v) divided  *)
(* by the greatest strength of a node when that is above 0; when the graph *)
(* has no edge every strength_norm is 0, and the stage never ends in a     *)
(* division by zero; in a graph whose weights are all above 0 and that has *)
(* an edge, every strength_norm is from 0 to 1 and is 1 for a node of the  *)
(* greatest strength.                                                      *)
C9_Strength ==
  /\ pc = "degree.failed" => exc # "ZeroDivisionError"
  /\ HasDegreeTable =>
       LET g == MainFile
           top == Max({IncidentWeight(g, v) : v \in Range(g.nodes)})
       IN \A v \in DOMAIN DegreeFile :
            LET r == DegreeFile[v]
                sv == IncidentWeight(g, v)
            IN /\ IsQuotient(r.strength, sv, 1)
               /\ r.strength_norm[2] # 0
               /\ top > 0 => IsQuotient(r.strength_norm, sv, top)
               /\ DOMAIN g.w = {} => r.strength_norm[1] = 0
               /\ ((\A e \in DOMAIN g.w : g.w[e] > 0) /\ DOMAIN g.w # {})
                    => /\ r.strength_norm[1] >= 0
                       /\ r.strength_norm[1] <= r.strength_norm[2]
                       /\ sv = top => r.strength_norm[1] = r.strength_norm[2]

(* The degree stage has written its table for a graph of several nodes     *)
(* and no edge.                                                            *)
C9_Witness ==
  /\ HasDegreeTable
  /\ pc = "degree.done"
  /\ number_of_nodes(MainFile) >= 2
  /\ DOMAIN MainFile.w = {}

(* C10: the distance step of the betweenness stage gives every edge of     *)
(* weight above 0 the distance 1 / weight, gives an edge of weight 0 or    *)
(* below a distance without dividing by its weight, and never ends in a    *)
(* division by zero, whatever the weights of the graph it read.            *)
C10_EdgeDistance ==
  /\ pc = "betweenness.failed" => exc # "ZeroDivisionError"
  /\ pc = "betweenness.weighted" =>
       /\ DOMAIN distance = DOMAIN G.w
       /\ \A e \in DOMAIN G.w :
            /\ ~DivRaises(distance[e])
            /\ G.w[e] > 0 => IsQuotient(distance[e], 1, G.w[e])

(* The distances are set for a graph with an edge of weight 0, an edge of  *)
(* negative weight and an edge of weight 2.                                *)
C10_Witness ==
  /\ pc = "betweenness.weighted"
  /\ \E e \in DOMAIN G.w : G.w[e] = 0
  /\ \E e \in DOMAIN G.w : G.w[e] < 0
  /\ \E e \in DOMAIN G.w : G.w[e] = 2 /\ distance[e] = <<1, 2>>

(* The rows of the input that give disease d a name, in row order. *)
NamedRowsOf(d) ==
  {i \in DOMAIN rows : rows[i].condition_concept_id = d /\ rows[i].concept_name # NaN}

FirstName(d) == rows[Min(NamedRowsOf(d))].concept_name

(* The row in which a name of d is seen for the first time. *)
FirstSeen(d, nm) == Min({i \in NamedRowsOf(d) : rows[i].concept_name = nm})

(* The name of d that is the last one to be seen for the first time. *)
LatestName(d) ==
  LET nms == {rows[i].concept_name : i \in NamedRowsOf(d)}
  IN CHOOSE nm \in nms : \A o \in nms : FirstSeen(d, o) <= FirstSeen(d, nm)

(* C16 as stated: the name lookup, and the name attribute of the node,    *)
(* hold for every named disease the first name seen for it in row order.  *)
C16_FirstName ==
  AfterStep4 =>
    \A d \in NamedDiseases :
      /\ disease_name_map.val[d] = FirstName(d)
      /\ G.name[d] = FirstName(d)

(* C16 amended: the name lookup has exactly the named diseases as keys,   *)
(* and it and the node's name attribute hold, of the names the disease    *)
(* comes with, the one whose first row comes last; that is the first name *)
(* seen when the disease has one name only.                               *)
C16_LatestName ==
  AfterStep4 =>
    /\ DOMAIN disease_name_map.val = NamedDiseases
    /\ \A d \in NamedDiseases :
         /\ disease_name_map.val[d] = LatestName(d)
         /\ G.name[d] = LatestName(d)
         /\ Cardinality({rows[i].concept_name : i \in NamedRowsOf(d)}) = 1
              => G.name[d] = FirstName(d)

(* A disease whose rows name it "a", then "b", then "a" again: the node   *)
(* is named "b".                                                          *)
C16_Witness ==
  /\ AfterStep4
  /\ \E d \in NamedDiseases :
       /\ FirstName(d) = "a"
       /\ rows[Max(NamedRowsOf(d))].concept_name = "a"
       /\ G.name[d] = "b"

HasMainFile == "disease_network_main.pkl" \in DOMAIN files

(* C11 as stated: a centrality stage that reads a graph without nodes     *)
(* does not end in an error, and the table it writes is empty.            *)
C11_EmptyGraphStage ==
  (HasMainFile /\ number_of_nodes(MainFile) = 0) =>
    /\ pc \notin {"degree.failed", "betweenness.failed"}
    /\ pc = "degree.done" => DegreeFile = <<>>
    /\ pc = "betweenness.done" => files["betweenness_centrality_nodes.csv"] = <<>>

(* The community stage from the return of best_partition on, and from   *)
(* the grouping of the nodes on.                                        *)
HasPartition ==
  \/ pc \in {"community.modularity", "community.analyze", "community.draw",
              "community.network", "community.save", "community.done"}
  \/ pc = "community.failed" /\ exc = "ValueError"

HasCommunities ==
  pc \in {"community.draw", "community.network", "community.save",
          "community.done"}

RECURSIVE LenTotal(_, _)
LenTotal(d, K) ==
  IF K = {} THEN 0
  ELSE LET k == CHOOSE x \in K : TRUE
       IN Len(d.val[k]) + LenTotal(d, K \ {k})

(* C12: the partition best_partition returns has exactly the nodes of    *)
(* the graph as keys, each once, so every node has one community id; the *)
(* lists of nodes per community made from it are lists without repeats,  *)
(* no node is in two of them, every node is in the list of its own       *)
(* community, together they are the node set, and their lengths add up   *)
(* to the number of nodes.                                               *)
C12_PartitionComplete ==
  /\ HasPartition =>
       /\ Range(partition.keys) = Range(G.nodes)
       /\ DOMAIN partition.val = Range(G.nodes)
       /\ Len(partition.keys) = Cardinality(Range(G.nodes))
  /\ HasCommunities =>
       LET ids == Range(communities.keys)
       IN /\ ids = {partition.val[n] : n \in Range(G.nodes)}
          /\ DOMAIN communities.val = ids
          /\ Len(communities.keys) = Cardinality(ids)
          /\ \A c \in ids :
               Cardinality(Range(communities.val[c])) = Len(communities.val[c])
          /\ \A c, d \in ids :
               c # d => Range(communities.val[c]) \cap Range(communities.val[d]) = {}
          /\ \A n \in Range(G.nodes) : n \in Range(communities.val[partition.val[n]])
          /\ UNION {Range(communities.val[c]) : c \in ids} = Range(G.nodes)
          /\ LenTotal(communities, ids) = number_of_nodes(G)

(* The stage has ended with two communities, one of them of several     *)
(* nodes, found on the second level.                                    *)
C12_Witness ==
  /\ pc = "community.done"
  /\ Len(status_list) >= 2
  /\ Len(communities.keys) >= 2
  /\ \E c \in Range(communities.keys) : Len(communities.val[c]) >= 3

(* The modularity of the spec's formula,                                *)
(*   Q = (1/2m) * sum_ij [A_ij - k_i k_j / (2m)] * delta(c_i, c_j),     *)
(* for a graph without self-loops, as a quotient over (2m)^2.           *)
Strength(g, i) == WeightTotal(g, IncidentEdges(g, i))

Adjacency(g, i, j) == IF i # j /\ {i, j} \in DOMAIN g.w THEN g.w[{i, j}] ELSE 0

RECURSIVE PairTotal(_, _, _)
PairTotal(g, m2, P) ==
  IF P = {} THEN 0
  ELSE LET ij == CHOOSE x \in P : TRUE
       IN (m2 * Adjacency(g, ij[1], ij[2]) - Strength(g, ij[1]) * Strength(g, ij[2]))
            + PairTotal(g, m2, P \ {ij})

SpecQ(g, c) ==
  LET V == Range(g.nodes)
      m2 == 2 * WeightTotal(g, DOMAIN g.w)
  IN <<PairTotal(g, m2, {ij \in V \X V : c[ij[1]] = c[ij[2]]}), m2 * m2>>

LeqQ(p, q) == p[1] * q[2] <= q[1] * p[2]

AllSingletons(g) == [n \in Range(g.nodes) |-> n]

AllInOne(g) == [n \in Range(g.nodes) |-> 0]

HasModularity ==
  pc \in {"community.analyze", "community.draw", "community.network",
          "community.save", "community.done"}

(* C13: for a graph with at least one edge (its weights above 0), the    *)
(* modularity the stage reports is the Q of the spec's formula for the   *)
(* partition returned; it is from -1/2 to 1, at least the Q of the       *)
(* partition into singletons and at least the Q of the partition with    *)
(* all nodes in one community.                                           *)
C13_Modularity ==
  (HasModularity /\ number_of_edges(G) >= 1) =>
    /\ modularity[2] > 0
    /\ EqQ(modularity, SpecQ(G, partition.val))
    /\ LeqQ(<<0 - 1, 2>>, modularity)
    /\ LeqQ(modularity, <<1, 1>>)
    /\ LeqQ(SpecQ(G, AllSingletons(G)), modularity)
    /\ LeqQ(SpecQ(G, AllInOne(G)), modularity)

(* The modularity is reported for a partition that is neither the       *)
(* singletons nor one community, and is above that of both.             *)
C13_Witness ==
  /\ pc = "community.done"
  /\ Len(communities.keys) >= 2
  /\ Len(communities.keys) < number_of_nodes(G)
  /\ modularity[1] > 0
  /\ ~LeqQ(modularity, SpecQ(G, AllSingletons(G)))

(* C14 as stated: on a graph with nodes and no edge no analysis stage    *)
(* ends in an error; the centralities in the tables are all 0, the       *)
(* partition has every node in a community of its own, and the           *)
(* modularity is not a number or is absent.                              *)
C14_NoEdges ==
  (HasMainFile /\ number_of_nodes(MainFile) >= 1 /\ number_of_edges(MainFile) = 0) =>
    /\ pc \notin {"degree.failed", "betweenness.failed", "community.failed"}
    /\ HasDegreeTable =>
         \A n \in DOMAIN DegreeFile :
           /\ DegreeFile[n].degree_centrality[1] = 0
           /\ DegreeFile[n].strength_norm[1] = 0
    /\ "betweenness_centrality_nodes.csv" \in DOMAIN files =>
         \A n \in DOMAIN files["betweenness_centrality_nodes.csv"] :
           /\ files["betweenness_centrality_nodes.csv"][n].betweenness_centrality[1] = 0
           /\ files["betweenness_centrality_nodes.csv"][n].betweenness_weighted[1] = 0
    /\ HasPartition =>
         \A a, b \in Range(G.nodes) : a # b => partition.val[a] # partition.val[b]
    /\ HasModularity => (modularity = <<>> \/ modularity[2] = 0)

(* The crossing edges of two communities. *)
Crossing(g, part, c, d) ==
  {e \in DOMAIN g.w : \E u, v \in e : part[u] = c /\ part[v] = d}

HasCommunityGraph == pc \in {"community.save", "community.done"}

(* C15: the graph of the communities has one node per community id,      *)
(* with the number of the community's nodes as size; two different       *)
(* communities are joined exactly when an edge of G has an end in each,  *)
(* the weight being the sum of the weights of all such edges; and no     *)
(* edge joins a community to itself.                                     *)
C15_CommunityGraph ==
  HasCommunityGraph =>
    LET ids == {partition.val[n] : n \in Range(G.nodes)}
        cg == community_graph
    IN /\ Range(cg.nodes) = ids
       /\ Len(cg.nodes) = Cardinality(ids)
       /\ DOMAIN cg.size = ids
       /\ \A c \in ids : cg.size[c] = Cardinality(Members(partition.val, c))
       /\ \A e \in DOMAIN cg.w : Cardinality(e) = 2 /\ e \subseteq ids
       /\ \A c, d \in ids :
            c # d =>
              /\ ({c, d} \in DOMAIN cg.w) <=> (Crossing(G, partition.val, c, d) # {})
              /\ {c, d} \in DOMAIN cg.w =>
                   cg.w[{c, d}] = WeightTotal(G, Crossing(G, partition.val, c, d))

(* Two communities joined by more than one edge of G, next to edges     *)
(* inside a community.                                                  *)
C15_Witness ==
  /\ HasCommunityGraph
  /\ \E c, d \in Range(community_graph.nodes) :
       /\ c # d
       /\ Cardinality(Crossing(G, partition.val, c, d)) >= 2
       /\ Crossing(G, partition.val, c, c) # {}


(* While best_partition runs: the node of the current level an original *)
(* node has become, the community it is in now, and the community it    *)
(* was given by the last level kept.                                    *)
RECURSIVE Lifted(_, _)
Lifted(n, i) == IF i = 0 THEN n ELSE status_list[i][Lifted(n, i - 1)]

CurrentPartition ==
  [n \in Range(G.nodes) |-> status.node2com[Lifted(n, Len(status_list))]]

QNow == SpecQ(G, CurrentPartition)

(* One node of the pass is gone through. *)
VisitStep ==
  /\ pc = "louvain.visit"
  /\ pc' = "louvain.visit"
  /\ pending' # pending

(* Every visit leaves the modularity of the partition of G as high as it *)
(* was, touches the community of the visited node only, and changes it   *)
(* only with a modularity strictly higher than before.                   *)
MovesGain ==
  VisitStep =>
    \A node \in pending \ pending' :
    \A com \in {status'.node2com[node]} :
    \A before \in {QNow} :
    \A after \in {SpecQ(G, [n \in Range(G.nodes) |->
                               IF Lifted(n, Len(status_list)) = node THEN com
                               ELSE CurrentPartition[n]])} :
      /\ LeqQ(before, after)
      /\ \A x \in DOMAIN status.node2com :
           x # node => status'.node2com[x] = status.node2com[x]
      /\ com # status.node2com[node] => ~LeqQ(after, before)

(* A pass is the last of its level exactly when it moved no node or      *)
(* gained nothing, and a level after the first is the last exactly when  *)
(* it gained nothing over the level before.                              *)
LoopStops ==
  /\ (pc = "louvain.visit" /\ pending = {} /\ pc' # pc)
       => ((pc' = "louvain.level") <=> LeqQ(QNow, cur_mod))
  /\ (pc = "louvain.pass" /\ pc' # pc)
       => ((pc' = "louvain.level") <=> ~modified)
  /\ (pc = "louvain.level" /\ status_list # <<>> /\ pc' # pc)
       => ((pc' = "community.modularity") <=> LeqQ(QNow, mod))

(* When best_partition has returned, every node of G has the community   *)
(* of the last level kept, which groups the nodes as the last pass left  *)
(* them.                                                                 *)
NodesMapped ==
  (pc = "community.modularity" /\ number_of_edges(G) >= 1) =>
    /\ Len(status_list) >= 1
    /\ DOMAIN partition.val = Range(G.nodes)
    /\ \A n \in Range(G.nodes) :
         partition.val[n] = Lifted(n, Len(status_list))
    /\ \A a, b \in Range(G.nodes) :
         (partition.val[a] = partition.val[b]) <=> (CurrentPartition[a] = CurrentPartition[b])

(* C17: community detection comes to an end on every graph, in whatever  *)
(* order the nodes are gone through: a visit changes the community of a  *)
(* node only with a strictly positive gain of modularity, so that the    *)
(* modularity never decreases from one move to the next; the loops stop  *)
(* as soon as a pass, or a level, gains nothing; and every node of G     *)
(* then has the community of the top level.                              *)
C17_Termination ==
  /\ [][MovesGain /\ LoopStops]_vars
  /\ []NodesMapped
  /\ (pc = "community.detect") ~> (pc = "community.modularity")

(* best_partition has returned after two levels, the second of which     *)
(* joined communities of the first.                                      *)
C17_Witness ==
  /\ pc = "community.modularity"
  /\ Len(status_list) >= 2
  /\ \E a, b \in Range(G.nodes) :
       status_list[1][a] # status_list[1][b] /\ partition.val[a] = partition.val[b]


===========================================================================
